---- MODULE Spec2Model ----
(***************************************************************************)
(* SaaS.ai backend (src/main.py): idea scoring, the identifier codec, the  *)
(* request handlers over the "idea" and "prototypeversion" collections and *)
(* the per-idea version numbering of generate_prototype.                   *)
(*                                                                         *)
(* Texts and identifiers are strings; substring tests, lower-casing, the   *)
(* hexadecimal parse of ObjectId and its formatting are computed character *)
(* by character.  An Optional[str] is <<>> (None) or <<s>>.               *)
(***************************************************************************)
EXTENDS Integers, Sequences, FiniteSets, TLC

VARIABLES
    dbAvailable,  \* db is not None (src/main.py:9), fixed at import time
    ideas,        \* documents of db["idea"]
    versions,     \* documents of db["prototypeversion"]
    resp,         \* the request last served and its response
    issued,       \* <<idea_id, text>> pairs create_idea has returned
    pc,           \* per in-flight generate_prototype request: its position
    local,        \* per in-flight generate_prototype request: its locals
    scored        \* the case of ScoreCases whose text was last scored

vars == <<dbAvailable, ideas, versions, resp, issued, pc, local, scored>>

----------------------------------------------------------------------------
(* Bounds of the model *)

MaxIdeas == 1        \* documents in db["idea"]
MaxVersions == 2     \* documents in db["prototypeversion"]
NumProcs == 2        \* generate_prototype requests in flight at once
MaxSeed == 2         \* pre-existing version documents given to the sequencer
MaxSeedVersion == 3  \* largest version number among the pre-existing documents
MaxTick == 1         \* latest reading of the clock, in seconds

----------------------------------------------------------------------------
(* Strings *)

Char(s, i) == SubSeq(s, i, i)

UPPER == "ABCDEFGHIJKLMNOPQRSTUVWXYZ"
LOWER == "abcdefghijklmnopqrstuvwxyz"

LowerMap ==
    [c \in {Char(UPPER, i) : i \in 1..Len(UPPER)} |->
        Char(LOWER, CHOOSE i \in 1..Len(UPPER) : Char(UPPER, i) = c)]

UpperMap ==
    [c \in {Char(LOWER, i) : i \in 1..Len(LOWER)} |->
        Char(UPPER, CHOOSE i \in 1..Len(LOWER) : Char(LOWER, i) = c)]

\* str.lower() on one character
LowerChar(c) == IF c \in DOMAIN LowerMap THEN LowerMap[c] ELSE c

RECURSIVE Lower(_)
Lower(s) == IF Len(s) = 0 THEN s
            ELSE LowerChar(Char(s, 1)) \o Lower(SubSeq(s, 2, Len(s)))

\* str.upper() on one character (used to spell identifiers in upper-case hex)
UpperChar(c) == IF c \in DOMAIN UpperMap THEN UpperMap[c] ELSE c

RECURSIVE Upper(_)
Upper(s) == IF Len(s) = 0 THEN s
            ELSE UpperChar(Char(s, 1)) \o Upper(SubSeq(s, 2, Len(s)))

\* Python's "k in t" on strings
Contains(t, k) ==
    \E i \in 1..(Len(t) - Len(k) + 1) : SubSeq(t, i, i + Len(k) - 1) = k

\* str.title() of a lower-case word
Title(s) == IF Len(s) = 0 THEN s
            ELSE UpperChar(Char(s, 1)) \o SubSeq(s, 2, Len(s))

----------------------------------------------------------------------------
(* Optional values *)

None == <<>>
Some(x) == <<x>>
\* Python truthiness of an Optional[str]: None and "" are falsy
Truthy(o) == o # None /\ o[1] # ""

----------------------------------------------------------------------------
(* Identifier codec: bson.ObjectId as used by oid() and str() *)

OidHexLen == 24
HEXDIGITS == "0123456789abcdef"

\* The value of each hexadecimal digit, the letters in either case
HexMap ==
    [c \in {Char(HEXDIGITS, i) : i \in 1..Len(HEXDIGITS)}
            \cup {UpperChar(Char(HEXDIGITS, i)) : i \in 1..Len(HEXDIGITS)} |->
        (CHOOSE i \in 1..Len(HEXDIGITS) : Char(HEXDIGITS, i) = LowerChar(c)) - 1]

IsHexChar(c) == c \in DOMAIN HexMap
HexDigitValue(c) == HexMap[c]

\* ObjectId(s) accepts exactly the strings of 24 hexadecimal digits, in
\* either case
ObjectIdValid(s) ==
    /\ Len(s) = OidHexLen
    /\ \A i \in 1..Len(s) : IsHexChar(Char(s, i))

RECURSIVE HexValue(_)
HexValue(s) ==
    IF Len(s) = 0 THEN 0
    ELSE 16 * HexValue(SubSeq(s, 1, Len(s) - 1)) + HexDigitValue(Char(s, Len(s)))

RECURSIVE HexString(_, _)
HexString(n, width) ==
    IF width = 0 THEN ""
    ELSE HexString(n \div 16, width - 1) \o Char(HEXDIGITS, (n % 16) + 1)

\* The keys the model ever formats, and their spellings computed once
KeyRange == 0..255
ObjectIdStrings == [k \in KeyRange |-> HexString(k, OidHexLen)]

\* str(ObjectId): 24 lower-case hexadecimal digits
ObjectIdStr(k) ==
    IF k \in KeyRange THEN ObjectIdStrings[k] ELSE HexString(k, OidHexLen)

\* What ObjectId(s) does with a string: the key, or InvalidId
ParseObjectId(s) ==
    IF ObjectIdValid(s) THEN [ok |-> TRUE, key |-> HexValue(s)]
    ELSE [ok |-> FALSE, key |-> 0]

\* The well-formed spellings of the keys in KeyRange, parsed once
ParsedObjectIds ==
    [s \in {ObjectIdStrings[k] : k \in KeyRange}
            \cup {Upper(ObjectIdStrings[k]) : k \in KeyRange} |-> ParseObjectId(s)]

ObjectId(s) ==
    IF s \in DOMAIN ParsedObjectIds THEN ParsedObjectIds[s] ELSE ParseObjectId(s)

\* oid() without its except clause: InvalidId escapes as a 500
OidUncaught(s) ==
    LET o == ObjectId(s) IN
    [ok |-> o.ok, status |-> IF o.ok THEN 200 ELSE 500, key |-> o.key]

\* oid(): the key, or HTTP 400 "Invalid ID format"
oid(s) ==
    LET o == ObjectId(s) IN
    [ok |-> o.ok, status |-> IF o.ok THEN 200 ELSE 400, key |-> o.key]

----------------------------------------------------------------------------
(* Core logic: score_idea *)

KEYWORDS ==
    [education |-> <<"teacher", "student", "lesson", "school", "course", "class">>,
     commerce  |-> <<"buy", "sell", "shop", "e-commerce", "payment", "checkout", "store">>,
     b2b       |-> <<"enterprise", "team", "workflow", "crm", "erp", "dashboard">>,
     content   |-> <<"blog", "post", "article", "newsletter", "content">>,
     ai        |-> <<"ai", "machine learning", "gpt", "model", "chatbot", "assistant">>]

\* any(k in t for k in KEYWORDS[cat])
AnyKeyword(cat, t) ==
    \E i \in 1..Len(KEYWORDS[cat]) : Contains(t, KEYWORDS[cat][i])

BaselineScores ==
    [market_feasibility |-> 5, target_audience |-> 5,
     monetization_potential |-> 5, technical_complexity |-> 5]

BoostAi(sc, t) ==
    IF AnyKeyword("ai", t)
    THEN [sc EXCEPT !.market_feasibility = @ + 2,
                    !.monetization_potential = @ + 1,
                    !.technical_complexity = @ + 2]
    ELSE sc

BoostB2b(sc, t) ==
    IF AnyKeyword("b2b", t)
    THEN [sc EXCEPT !.target_audience = @ + 2, !.monetization_potential = @ + 2]
    ELSE sc

\* The commerce boost with +2 in place of +3
BoostCommerceLow(sc, t) ==
    IF AnyKeyword("commerce", t)
    THEN [sc EXCEPT !.monetization_potential = @ + 2]
    ELSE sc

BoostCommerce(sc, t) ==
    IF AnyKeyword("commerce", t)
    THEN [sc EXCEPT !.monetization_potential = @ + 3]
    ELSE sc

BoostEducation(sc, t) ==
    IF AnyKeyword("education", t)
    THEN [sc EXCEPT !.market_feasibility = @ + 1, !.target_audience = @ + 1]
    ELSE sc

BoostContent(sc, t) ==
    IF AnyKeyword("content", t)
    THEN [sc EXCEPT !.market_feasibility = @ + 1]
    ELSE sc

Min2(a, b) == IF a < b THEN a ELSE b
Max2(a, b) == IF a > b THEN a ELSE b

\* No clamping at all
ClampNone(v) == v

\* max(0, min(10, v))
Clamp(v) == Max2(0, Min2(10, v))

ClampScores(sc) == [k \in DOMAIN sc |-> Clamp(sc[k])]

RISK_COMPLEXITY == "High technical complexity may increase time-to-market and cost."
RISK_REGULATORY == "Regulatory compliance (privacy/health/finance) may be required."
RISK_NETWORK == "Network effects are hard to achieve without significant traction."
RISK_FALLBACK == "Go-to-market and user acquisition remain key risks."

OPP_AI == "Leverage AI differentiation for personalization and automation."
OPP_B2B == "B2B sales with clear ROI can support premium pricing."
OPP_COMMERCE == "Direct monetization via subscriptions and transactions."
OPP_EDUCATION == "Large educator communities enable organic distribution."
OPP_FALLBACK == "Opportunity to differentiate with excellent UX and speed."

RECOMMENDATIONS ==
    <<"Start with a focused niche to validate demand quickly.",
      "Ship an MVP with 1-2 killer workflows before expanding scope.",
      "Define 1-2 monetization experiments (subscription tiers, usage-based).",
      "Add analytics to learn from early usage.">>

SUMMARY ==
    "Balanced opportunity with manageable risk. Start lean, validate with a prototype, "
    \o "and iterate based on user feedback."

\* list.append(x) under a condition
AppendIf(list, cond, x) == IF cond THEN Append(list, x) ELSE list

Risks(sc, t) ==
    LET r1 == AppendIf(<<>>, sc.technical_complexity >= 7, RISK_COMPLEXITY)
        r2 == AppendIf(r1, Contains(t, "privacy") \/ Contains(t, "health")
                              \/ Contains(t, "finance"), RISK_REGULATORY)
    IN  AppendIf(r2, Contains(t, "viral") \/ Contains(t, "social network"),
                 RISK_NETWORK)

Opportunities(t) ==
    LET o1 == AppendIf(<<>>, AnyKeyword("ai", t), OPP_AI)
        o2 == AppendIf(o1, AnyKeyword("b2b", t), OPP_B2B)
        o3 == AppendIf(o2, AnyKeyword("commerce", t), OPP_COMMERCE)
    IN  AppendIf(o3, AnyKeyword("education", t), OPP_EDUCATION)

\* The fallback appended whether or not a rule fired
OrAppend(list, fallback) == list \o fallback

\* Python's "list or fallback": the fallback only when the list is empty
OrElse(list, fallback) == IF list = <<>> THEN fallback ELSE list

score_idea(text) ==
    LET t  == Lower(text)
        sc == ClampScores(
                BoostContent(BoostEducation(BoostCommerce(BoostB2b(
                    BoostAi(BaselineScores, t), t), t), t), t))
    IN  [scores          |-> sc,
         risks           |-> OrElse(Risks(sc, t), <<RISK_FALLBACK>>),
         opportunities   |-> OrElse(Opportunities(t), <<OPP_FALLBACK>>),
         recommendations |-> RECOMMENDATIONS,
         summary         |-> SUMMARY]

----------------------------------------------------------------------------
(* Page templates: generate_code, the markup reduced to its interpolated
   parts and a tag for the section template chosen *)

SITE_TYPES == {"landing", "dashboard", "ecommerce", "blog"}

generate_code(site_type, idea_text) ==
    "<h1>Prototype: " \o Title(site_type) \o "</h1><p>Idea: " \o idea_text
    \o "</p><section:"
    \o (IF site_type \in SITE_TYPES THEN site_type ELSE "landing") \o ">"

----------------------------------------------------------------------------
(* The document store.  insert_one gives the document a fresh ObjectId; the
   keys are handed out in insertion order, from 0xa upwards so that their
   hexadecimal spelling has a letter in it. *)

NewObjectId(ideaDocs, versionDocs) ==
    10 + Cardinality(ideaDocs) + Cardinality(versionDocs)

\* A query that ignores the key
FindByIdAny(docs, key) == docs

\* find_one({"_id": key}): the documents matching, none or one
FindById(docs, key) == {d \in docs : d.key = key}

\* datetime.isoformat(), the clock reading t being a count of seconds
IsoFormat(t) == "2024-01-01T00:00:0" \o Char("0123456789", t + 1)

\* serialize() returning the text lower-cased
SerializeIdeaLowered(doc) ==
    [id |-> ObjectIdStr(doc.key), text |-> Lower(doc.text),
     created_at |-> IsoFormat(doc.created_at),
     updated_at |-> IsoFormat(doc.updated_at)]

\* serialize() of an idea document: "_id" becomes "id", as a string, and
\* the datetimes become ISO-8601 text
SerializeIdea(doc) ==
    [id |-> ObjectIdStr(doc.key), text |-> doc.text,
     created_at |-> IsoFormat(doc.created_at),
     updated_at |-> IsoFormat(doc.updated_at)]

\* serialize() of a prototypeversion document
SerializeVersion(doc) ==
    [id |-> ObjectIdStr(doc.key), idea_id |-> doc.idea_id,
     idea_text |-> doc.idea_text, site_type |-> doc.site_type,
     version |-> doc.version, code |-> doc.code, notes |-> doc.notes,
     created_at |-> IsoFormat(doc.created_at),
     updated_at |-> IsoFormat(doc.updated_at)]

\* find({"idea_id": idea_id})
VersionsOf(versionDocs, idea_id) == {d \in versionDocs : d.idea_id = idea_id}

\* .sort("version", -1): descending by version.  The order among documents
\* with equal versions is taken to be insertion order; the newest version,
\* which is all that NextVersion reads, is the same in any order.
SortedDesc(docs) ==
    CHOOSE seq \in [1..Cardinality(docs) -> docs] :
        /\ \A d \in docs : \E i \in DOMAIN seq : seq[i] = d
        /\ \A i, j \in DOMAIN seq :
              i < j => \/ seq[i].version > seq[j].version
                       \/ /\ seq[i].version = seq[j].version
                          /\ seq[i].key < seq[j].key

\* .limit(1)
Limit1(seq) == IF Len(seq) = 0 THEN seq ELSE SubSeq(seq, 1, 1)

\* count+1 in place of max+1
NextVersionByCount(versionDocs, idea_id) ==
    Cardinality(VersionsOf(versionDocs, idea_id)) + 1

\* The loop over the newest document left out: always 1
NextVersionStuck(versionDocs, idea_id) == 1

\* src/main.py:379-382: the newest version of the idea plus one, else 1
NextVersion(versionDocs, idea_id) ==
    LET last == Limit1(SortedDesc(VersionsOf(versionDocs, idea_id)))
    IN  IF Len(last) = 0 THEN 1 ELSE last[1].version + 1

\* The idea document of create_idea and of generate_prototype; reads is the
\* pair of readings the two datetime.utcnow() calls return
IdeaDoc(key, text, reads) ==
    [key |-> key, text |-> text, created_at |-> reads[1], updated_at |-> reads[2]]

\* src/main.py:384-395
VersionDoc(key, idea_id, idea_text, payload, next_version, reads) ==
    [key |-> key, idea_id |-> idea_id, idea_text |-> idea_text,
     site_type |-> payload.site_type, version |-> next_version,
     code |-> generate_code(payload.site_type, idea_text),
     notes |-> payload.notes,
     created_at |-> reads[1], updated_at |-> reads[2]]

----------------------------------------------------------------------------
(* Request handlers as functions of the store: what each one answers *)

Response(op, arg, status, touched, body) ==
    [op |-> op, arg |-> arg, status |-> status, touched |-> touched, body |-> body]

NoResponse == Response("none", None, 0, FALSE, None)

\* The availability check left out
DbCheckSkipped(avail) == FALSE

\* "if db is None: raise HTTPException(status_code=500, ...)"
DbMissing(avail) == ~avail

\* src/main.py:322-329
GetIdeaResponse(avail, ideaDocs, idea_id) ==
    IF DbMissing(avail)
    THEN Response("get_idea", idea_id, 500, FALSE, "Database not available")
    ELSE LET o == oid(idea_id) IN
         IF ~o.ok
         THEN Response("get_idea", idea_id, o.status, FALSE, "Invalid ID format")
         ELSE LET found == FindById(ideaDocs, o.key) IN
              IF found = {}
              THEN Response("get_idea", idea_id, 404, TRUE, "Idea not found")
              ELSE Response("get_idea", idea_id, 200, TRUE,
                            SerializeIdea(CHOOSE d \in found : TRUE))

\* src/main.py:332-338
ListVersionsResponse(avail, versionDocs, idea_id) ==
    IF DbMissing(avail)
    THEN Response("list_versions", idea_id, 500, FALSE, "Database not available")
    ELSE LET cur   == SortedDesc(VersionsOf(versionDocs, idea_id))
             items == [i \in DOMAIN cur |-> SerializeVersion(cur[i])]
         IN  Response("list_versions", idea_id, 200, TRUE,
                      [count |-> Len(items), items |-> items])

\* src/main.py:341-348
GetVersionResponse(avail, versionDocs, version_id) ==
    IF DbMissing(avail)
    THEN Response("get_version", version_id, 500, FALSE, "Database not available")
    ELSE LET o == oid(version_id) IN
         IF ~o.ok
         THEN Response("get_version", version_id, o.status, FALSE, "Invalid ID format")
         ELSE LET found == FindById(versionDocs, o.key) IN
              IF found = {}
              THEN Response("get_version", version_id, 404, TRUE, "Version not found")
              ELSE Response("get_version", version_id, 200, TRUE,
                            SerializeVersion(CHOOSE d \in found : TRUE))

\* src/main.py:351-353
ValidateIdeaResponse(text) ==
    Response("validate_idea", text, 200, FALSE, score_idea(text))

\* src/main.py:358-376: the idea generate_prototype works on.  newIdeas is
\* the idea document it inserts when the request carries text and no idea_id.
ResolveIdea(avail, ideaDocs, versionDocs, payload, reads) ==
    IF DbMissing(avail)
    THEN [status |-> 500, touched |-> FALSE, detail |-> "Database not available",
          idea_id |-> "", idea_text |-> "", newIdeas |-> {}]
    ELSE IF ~Truthy(payload.idea_id)
    THEN IF ~Truthy(payload.text)
         THEN [status |-> 400, touched |-> FALSE, detail |-> "Provide idea_id or text",
               idea_id |-> "", idea_text |-> "", newIdeas |-> {}]
         ELSE LET key == NewObjectId(ideaDocs, versionDocs) IN
              [status |-> 200, touched |-> TRUE, detail |-> "",
               idea_id |-> ObjectIdStr(key), idea_text |-> payload.text[1],
               newIdeas |-> {IdeaDoc(key, payload.text[1], reads)}]
    ELSE LET o == oid(payload.idea_id[1]) IN
         IF ~o.ok
         THEN [status |-> o.status, touched |-> FALSE, detail |-> "Invalid ID format",
               idea_id |-> "", idea_text |-> "", newIdeas |-> {}]
         ELSE LET found == FindById(ideaDocs, o.key) IN
              IF found = {}
              THEN [status |-> 404, touched |-> TRUE, detail |-> "Idea not found",
                    idea_id |-> "", idea_text |-> "", newIdeas |-> {}]
              ELSE [status |-> 200, touched |-> TRUE, detail |-> "",
                    idea_id |-> payload.idea_id[1],
                    idea_text |-> (CHOOSE d \in found : TRUE).text,
                    newIdeas |-> {}]

\* src/main.py:397-407: the answer built from the document read back
PrototypeOut(saved) ==
    LET s == SerializeVersion(saved) IN
    [version_id |-> s.id, idea_id |-> s.idea_id, version |-> s.version,
     site_type |-> s.site_type, code |-> s.code, created_at |-> s.created_at]

----------------------------------------------------------------------------
(* Inputs *)

IdeaTexts == {"Sell courses online", "AI tutor"}

\* The pairs of readings the two datetime.utcnow() calls of a document may
\* return.  StillClock is a clock that does not advance between the two
\* calls; TickingClock is one that may: the second reading is the first or
\* any later one up to MaxTick.
StillClock == {<<0, 0>>}

TickingClock == {r \in (0..MaxTick) \X (0..MaxTick) : r[1] <= r[2]}

SiteTypeInputs == {"dashboard"}
NotesInputs == {None}

MalformedIds == {"not-an-id", "00000000000000000000000g"}

\* A well-formed identifier that no document carries
UnknownId == ObjectIdStr(255)

\* Identifiers a client may hold: those of the stored documents, spelled as
\* issued or in upper-case hexadecimal, one that matches nothing, and
\* malformed ones
IdeaIdInputs ==
    {ObjectIdStr(d.key) : d \in ideas} \cup {Upper(ObjectIdStr(d.key)) : d \in ideas}
    \cup {UnknownId} \cup MalformedIds

VersionIdInputs ==
    {ObjectIdStr(d.key) : d \in versions} \cup {UnknownId} \cup MalformedIds

\* GenerateIn bodies: neither idea_id nor text; text alone; idea_id alone;
\* and the idea_id of a stored idea together with a text
Payloads ==
    [idea_id   : {None, Some("")},
     text      : {None, Some("")} \cup {Some(t) : t \in IdeaTexts},
     site_type : SiteTypeInputs,
     notes     : NotesInputs]
    \cup
    [idea_id   : {Some(i) : i \in IdeaIdInputs},
     text      : {None},
     site_type : SiteTypeInputs,
     notes     : NotesInputs]
    \cup
    [idea_id   : {Some(ObjectIdStr(d.key)) : d \in ideas},
     text      : {Some("AI tutor")},
     site_type : SiteTypeInputs,
     notes     : NotesInputs]

Procs == 1..NumProcs

\* The case of the empty text
NoCase ==
    [cats |-> {}, pick |-> "first", regulatory |-> "", network |-> "",
     style |-> "plain"]

NoLocal == [payload |-> None, idea_id |-> "", idea_text |-> "", next_version |-> 0]

----------------------------------------------------------------------------
(* Sequential use: every handler runs from its first line to its last
   before the next request is served *)

Init ==
    /\ dbAvailable \in BOOLEAN
    /\ ideas = {}
    /\ versions = {}
    /\ resp = NoResponse
    /\ issued = {}
    /\ pc = [p \in Procs |-> "idle"]
    /\ local = [p \in Procs |-> NoLocal]
    /\ scored = NoCase

\* src/main.py:309-319; clock is the set of pairs of readings its two
\* datetime.utcnow() calls may return
CreateIdeaAt(clock) ==
    \E text \in IdeaTexts, reads \in clock :
        IF DbMissing(dbAvailable)
        THEN /\ resp' = Response("create_idea", text, 500, FALSE, "Database not available")
             /\ UNCHANGED <<dbAvailable, ideas, versions, issued, pc, local, scored>>
        ELSE LET key == NewObjectId(ideas, versions) IN
             /\ Cardinality(ideas) < MaxIdeas
             /\ ideas' = ideas \cup {IdeaDoc(key, text, reads)}
             /\ resp' = Response("create_idea", text, 200, TRUE,
                                 [idea_id |-> ObjectIdStr(key)])
             /\ issued' = issued \cup {<<ObjectIdStr(key), text>>}
             /\ UNCHANGED <<dbAvailable, versions, pc, local, scored>>

CreateIdea == CreateIdeaAt(StillClock)

GetIdea ==
    \E idea_id \in IdeaIdInputs :
        /\ resp' = GetIdeaResponse(dbAvailable, ideas, idea_id)
        /\ UNCHANGED <<dbAvailable, ideas, versions, issued, pc, local, scored>>

ListVersions ==
    \E idea_id \in IdeaIdInputs :
        /\ resp' = ListVersionsResponse(dbAvailable, versions, idea_id)
        /\ UNCHANGED <<dbAvailable, ideas, versions, issued, pc, local, scored>>

GetVersion ==
    \E version_id \in VersionIdInputs :
        /\ resp' = GetVersionResponse(dbAvailable, versions, version_id)
        /\ UNCHANGED <<dbAvailable, ideas, versions, issued, pc, local, scored>>

ValidateIdea ==
    \E text \in IdeaTexts :
        /\ resp' = ValidateIdeaResponse(text)
        /\ UNCHANGED <<dbAvailable, ideas, versions, issued, pc, local, scored>>

\* src/main.py:356-407, the whole handler; the caps bound the collections,
\* and clock is the set of pairs of readings that the datetime.utcnow()
\* calls of the idea document and of the version document may return
GeneratePrototypeAt(clock, ideaCap, versionCap) ==
    \E payload \in Payloads, reads1 \in clock, reads2 \in clock :
        LET r == ResolveIdea(dbAvailable, ideas, versions, payload, reads1) IN
        IF r.status # 200
        THEN /\ resp' = Response("generate_prototype", payload, r.status,
                                 r.touched, r.detail)
             /\ UNCHANGED <<dbAvailable, ideas, versions, issued, pc, local, scored>>
        ELSE LET ideas2 == ideas \cup r.newIdeas
                 doc == VersionDoc(NewObjectId(ideas2, versions), r.idea_id,
                                   r.idea_text, payload,
                                   NextVersion(versions, r.idea_id), reads2)
                 versions2 == versions \cup {doc}
                 saved == CHOOSE d \in FindById(versions2, doc.key) : TRUE
             IN  /\ Cardinality(ideas2) <= ideaCap
                 /\ Cardinality(versions) < versionCap
                 /\ ideas' = ideas2
                 /\ versions' = versions2
                 /\ resp' = Response("generate_prototype", payload, 200, TRUE,
                                     PrototypeOut(saved))
                 /\ UNCHANGED <<dbAvailable, issued, pc, local, scored>>

GeneratePrototypeWithin(ideaCap, versionCap) ==
    GeneratePrototypeAt(StillClock, ideaCap, versionCap)

GeneratePrototype == GeneratePrototypeWithin(MaxIdeas, MaxVersions)

Next ==
    \/ CreateIdea
    \/ GetIdea
    \/ ListVersions
    \/ GetVersion
    \/ ValidateIdea
    \/ GeneratePrototype

Spec == Init /\ [][Next]_vars

----------------------------------------------------------------------------
(* Concurrent use: generate_prototype requests interleave at their storage
   calls.  A request resolves its idea (src/main.py:358-376), reads the
   newest version (379-382) and inserts its document (384-407); nothing
   holds the collection between the read and the insert. *)

InFlight == Cardinality({q \in Procs : pc[q] # "idle"})

\* The version computed again at the insert, as one step with it
VersionToStoreFresh(versionDocs, loc) == NextVersion(versionDocs, loc.idea_id)

\* src/main.py:390: the version stored is the one computed after the read
VersionToStore(versionDocs, loc) == loc.next_version

GenBegin(p) ==
    /\ pc[p] = "idle"
    /\ \E payload \in Payloads, reads \in StillClock :
        LET r == ResolveIdea(dbAvailable, ideas, versions, payload, reads) IN
        IF r.status # 200
        THEN /\ resp' = Response("generate_prototype", payload, r.status,
                                 r.touched, r.detail)
             /\ UNCHANGED <<dbAvailable, ideas, versions, issued, pc, local, scored>>
        ELSE /\ Cardinality(ideas \cup r.newIdeas) <= MaxIdeas
             /\ Cardinality(versions) + InFlight < MaxVersions
             /\ ideas' = ideas \cup r.newIdeas
             /\ pc' = [pc EXCEPT ![p] = "read"]
             /\ local' = [local EXCEPT ![p] =
                            [payload |-> payload, idea_id |-> r.idea_id,
                             idea_text |-> r.idea_text, next_version |-> 0]]
             /\ UNCHANGED <<dbAvailable, versions, resp, issued, scored>>

GenReadMax(p) ==
    /\ pc[p] = "read"
    /\ local' = [local EXCEPT ![p].next_version =
                    NextVersion(versions, local[p].idea_id)]
    /\ pc' = [pc EXCEPT ![p] = "insert"]
    /\ UNCHANGED <<dbAvailable, ideas, versions, resp, issued, scored>>

GenInsert(p) ==
    /\ pc[p] = "insert"
    /\ \E reads \in StillClock :
        LET doc == VersionDoc(NewObjectId(ideas, versions), local[p].idea_id,
                              local[p].idea_text, local[p].payload,
                              VersionToStore(versions, local[p]), reads)
            versions2 == versions \cup {doc}
            saved == CHOOSE d \in FindById(versions2, doc.key) : TRUE
        IN  /\ versions' = versions2
            /\ resp' = Response("generate_prototype", local[p].payload, 200, TRUE,
                                PrototypeOut(saved))
    /\ pc' = [pc EXCEPT ![p] = "idle"]
    /\ local' = [local EXCEPT ![p] = NoLocal]
    /\ UNCHANGED <<dbAvailable, ideas, issued, scored>>

GenBeginStep == \E p \in Procs : GenBegin(p)
GenReadMaxStep == \E p \in Procs : GenReadMax(p)
GenInsertStep == \E p \in Procs : GenInsert(p)

NextConc ==
    \/ GenBeginStep
    \/ GenReadMaxStep
    \/ GenInsertStep

SpecConc == Init /\ [][NextConc]_vars

----------------------------------------------------------------------------
(* The sequencer on its own: generate_prototype applied to a store that
   already holds version documents of one idea, with any version numbers
   (gaps and duplicates included) *)

SeedIdea == IdeaDoc(10, "Sell courses online", <<0, 0>>)

SeedPayload ==
    [idea_id |-> Some(ObjectIdStr(SeedIdea.key)), text |-> None,
     site_type |-> "dashboard", notes |-> None]

InitSeeded ==
    /\ dbAvailable = TRUE
    /\ ideas = {SeedIdea}
    /\ \E n \in 0..MaxSeed : \E vs \in [1..n -> 1..MaxSeedVersion] :
          versions = {VersionDoc(SeedIdea.key + i, ObjectIdStr(SeedIdea.key),
                                 SeedIdea.text, SeedPayload, vs[i], <<0, 0>>)
                      : i \in 1..n}
    /\ resp = NoResponse
    /\ issued = {}
    /\ pc = [p \in Procs |-> "idle"]
    /\ local = [p \in Procs |-> NoLocal]
    /\ scored = NoCase

GenerateSeeded == GeneratePrototypeWithin(MaxIdeas, MaxSeed + 1)

NextSequencer == GenerateSeeded

SpecSequencer == InitSeeded /\ [][NextSequencer]_vars

----------------------------------------------------------------------------
(* Scoring on its own: validate_idea applied to texts built from a known
   choice of keyword categories and risk words *)

Categories == {"education", "commerce", "b2b", "content", "ai"}
CategoryOrder == <<"education", "commerce", "b2b", "content", "ai">>

\* A text to score: the categories it names, which keyword of each (the
\* first or the last of its list), at most one regulatory word and one
\* network word, and how it is spelled
ScoreCases ==
    [cats       : SUBSET Categories,
     pick       : {"first", "last"},
     regulatory : {"", "privacy", "health", "finance"},
     network    : {"", "viral", "social network"},
     style      : {"plain", "upper", "embedded"}]

KeywordOf(c, cat) ==
    LET kw == IF c.pick = "first" THEN KEYWORDS[cat][1]
              ELSE KEYWORDS[cat][Len(KEYWORDS[cat])]
    IN  IF c.style = "embedded" THEN "x" \o kw \o "z" ELSE kw

RECURSIVE JoinWords(_)
JoinWords(words) ==
    IF Len(words) = 0 THEN ""
    ELSE IF Len(words) = 1 THEN words[1]
    ELSE words[1] \o " " \o JoinWords(Tail(words))

TextOf(c) ==
    LET kws   == [i \in 1..Len(CategoryOrder) |->
                    IF CategoryOrder[i] \in c.cats
                    THEN KeywordOf(c, CategoryOrder[i]) ELSE ""]
        words == SelectSeq(kws \o <<c.regulatory, c.network>>, LAMBDA w : w # "")
        text  == JoinWords(words)
    IN  IF c.style = "upper" THEN Upper(text) ELSE text

CaseTexts == [c \in ScoreCases |-> TextOf(c)]

\* One call per behaviour: the answer depends on the text alone
ValidateScoreCase ==
    \E c \in ScoreCases :
        /\ resp = NoResponse
        /\ resp' = ValidateIdeaResponse(CaseTexts[c])
        /\ scored' = c
        /\ UNCHANGED <<dbAvailable, ideas, versions, issued, pc, local>>

NextScore == ValidateScoreCase

SpecScore == Init /\ [][NextScore]_vars

----------------------------------------------------------------------------
(* Timestamps: create_idea and generate_prototype under a clock that may
   advance between any two of their datetime.utcnow() calls *)

CreateIdeaTicking == CreateIdeaAt(TickingClock)

GeneratePrototypeTicking == GeneratePrototypeAt(TickingClock, MaxIdeas, MaxVersions)

NextClock ==
    \/ CreateIdeaTicking
    \/ GeneratePrototypeTicking

SpecClock == Init /\ [][NextClock]_vars

----------------------------------------------------------------------------
(* Properties *)

MaxOf(S) == CHOOSE x \in S : \A y \in S : y <= x

DuplicateVersion ==
    \E d1, d2 \in versions :
        d1.key # d2.key /\ d1.idea_id = d2.idea_id /\ d1.version = d2.version

C3_InsertKeepsReadVersion ==
    [][\A p \in Procs :
          (pc[p] = "insert" /\ pc'[p] = "idle") =>
              \E d \in versions' \ versions :
                  /\ d.idea_id = local[p].idea_id
                  /\ d.version = local[p].next_version]_vars

C3_Witness == DuplicateVersion

Lookups == {"get_idea", "list_versions", "get_version"}

StorageOps ==
    {"create_idea", "get_idea", "list_versions", "get_version", "generate_prototype"}

\* The assessments of the texts of IdeaTexts, worked out by hand from
\* src/main.py:77-151
KnownAssessment(text) ==
    IF text = "AI tutor"
    THEN [scores |-> [market_feasibility |-> 7, target_audience |-> 5,
                      monetization_potential |-> 6, technical_complexity |-> 7],
          risks |-> <<RISK_COMPLEXITY>>, opportunities |-> <<OPP_AI>>,
          recommendations |-> RECOMMENDATIONS, summary |-> SUMMARY]
    ELSE [scores |-> [market_feasibility |-> 6, target_audience |-> 6,
                      monetization_potential |-> 8, technical_complexity |-> 5],
          risks |-> <<RISK_FALLBACK>>,
          opportunities |-> <<OPP_COMMERCE, OPP_EDUCATION>>,
          recommendations |-> RECOMMENDATIONS, summary |-> SUMMARY]

\* C5: with storage unavailable every handler that needs storage answers
\* 500 without touching it and no document is ever stored, while
\* validate_idea answers 200 with the assessment of the text, the same in
\* both storage states.
C5_StorageUnavailable ==
    /\ (~dbAvailable /\ resp.op \in StorageOps) =>
            resp.status = 500 /\ ~resp.touched
    /\ ~dbAvailable => ideas = {} /\ versions = {}
    /\ resp.op = "validate_idea" =>
            /\ resp.status = 200
            /\ ~resp.touched
            /\ resp.body = KnownAssessment(resp.arg)

C5_Witness ==
    ~dbAvailable /\ resp.op = "generate_prototype" /\ resp.status = 500

\* The well-formed spellings of an identifier and the idea they name,
\* stated without the codec: 24 hexadecimal digits, compared in lower case
NamesIdea(id, doc) == Lower(id) = HexString(doc.key, OidHexLen)

\* C6: with storage available generate_prototype answers 400 when the
\* request carries neither idea_id nor text and 404 when it carries a
\* well-formed idea_id that names no stored idea, and in both cases the two
\* collections are left as they were.
C6_GenerateFailures ==
    [][(resp'.op = "generate_prototype" /\ dbAvailable) =>
          /\ (resp'.arg.idea_id = None /\ resp'.arg.text = None)
                => resp'.status = 400
          /\ (/\ resp'.arg.idea_id # None
              /\ resp'.arg.idea_id[1] \notin MalformedIds \cup {""}
              /\ ~\E d \in ideas : NamesIdea(resp'.arg.idea_id[1], d))
                => resp'.status = 404
          /\ resp'.status \in {400, 404}
                => (ideas' = ideas /\ versions' = versions)]_vars

C6_Witness ==
    /\ dbAvailable
    /\ resp.op = "generate_prototype" /\ resp.status = 404
    /\ ideas # {} /\ versions # {}

C8_ScoresInRange ==
    resp.op = "validate_idea" =>
        \A k \in DOMAIN resp.body.scores : resp.body.scores[k] \in 0..10

C8_Witness ==
    /\ resp.op = "validate_idea" /\ resp.arg = CaseTexts[scored]
    /\ {"ai", "b2b", "commerce"} \subseteq scored.cats
    /\ resp.body.scores.monetization_potential = 10

Bonus(cats, cat, n) == IF cat \in cats THEN n ELSE 0
Clamped(v) == IF v > 10 THEN 10 ELSE IF v < 0 THEN 0 ELSE v

\* The scores of a text naming exactly the categories cats: the baseline 5
\* plus the adjustments of those categories, clamped once at the end
ExpectedScores(cats) ==
    [market_feasibility |->
        Clamped(5 + Bonus(cats, "ai", 2) + Bonus(cats, "education", 1)
                  + Bonus(cats, "content", 1)),
     target_audience |->
        Clamped(5 + Bonus(cats, "b2b", 2) + Bonus(cats, "education", 1)),
     monetization_potential |->
        Clamped(5 + Bonus(cats, "ai", 1) + Bonus(cats, "b2b", 2)
                  + Bonus(cats, "commerce", 3)),
     technical_complexity |->
        Clamped(5 + Bonus(cats, "ai", 2))]

\* C9: for every subset of the five keyword categories named by the text,
\* each score is the baseline 5 plus the sum of the adjustments of the
\* categories named, clamped to 0..10 after all adjustments.
C9_ScoresAreBaselinePlusAdjustments ==
    (resp.op = "validate_idea" /\ resp.arg = CaseTexts[scored]) =>
        resp.body.scores = ExpectedScores(scored.cats)

C9_Witness ==
    /\ resp.op = "validate_idea"
    /\ resp.arg = "buy enterprise"
    /\ resp.body.scores.monetization_potential = 10
    /\ resp.body.scores.target_audience = 7

InList(list, x) == \E i \in DOMAIN list : list[i] = x

\* C10: the risks and the opportunities of every text are non-empty; when
\* no risk rule fires the risks are the go-to-market fallback alone, when no
\* opportunity rule fires the opportunities are the UX/speed fallback alone,
\* and a fallback never stands beside a rule-derived statement.
C10_FallbacksStandAlone ==
    (resp.op = "validate_idea" /\ resp.arg = CaseTexts[scored]) =>
        LET c == scored IN
            /\ Len(resp.body.risks) >= 1
            /\ Len(resp.body.opportunities) >= 1
            /\ ("ai" \notin c.cats /\ c.regulatory = "" /\ c.network = "")
                  <=> resp.body.risks = <<RISK_FALLBACK>>
            /\ (c.cats \cap {"ai", "b2b", "commerce", "education"} = {})
                  <=> resp.body.opportunities = <<OPP_FALLBACK>>
            /\ InList(resp.body.risks, RISK_FALLBACK)
                  => resp.body.risks = <<RISK_FALLBACK>>
            /\ InList(resp.body.opportunities, OPP_FALLBACK)
                  => resp.body.opportunities = <<OPP_FALLBACK>>

C10_Witness ==
    /\ resp.op = "validate_idea"
    /\ resp.arg = "blog"
    /\ resp.body.risks = <<RISK_FALLBACK>>
    /\ resp.body.opportunities = <<OPP_FALLBACK>>

\* C11: every idea document and every version document is written with
\* created_at equal to updated_at, however the clock moves between the
\* reads of the handler.
C11_CreatedEqualsUpdated ==
    /\ \A d \in ideas : d.created_at = d.updated_at
    /\ \A d \in versions : d.created_at = d.updated_at

====
